---- MODULE Spec2Model ----
(***************************************************************************)
(* State-machine model of the GeoOutline map viewer: the AOI workflow      *)
(* controller, the AOI store over localStorage, the view/theme state       *)
(* machine and the minimap synchroniser of MapViewerEnhanced.tsx.          *)
(*                                                                         *)
(* JavaScript values are modelled structurally:                           *)
(*   - a localStorage entry is [present, text]; text is the stored string  *)
(*     as a sequence of JSON tokens;                                       *)
(*   - a JS value that JSON.parse can return is [kind, items] with kind    *)
(*     "array", "object" or "null";                                        *)
(*   - a call that can throw returns a record with an err field.           *)
(***************************************************************************)
EXTENDS Integers, Sequences, FiniteSets, TLC

VARIABLES
    phase,            \* "rendered" (state initialised), "mounted" (effects ran), "crashed" (render threw), "unmounted"
    storeImpl,        \* which utils/storage module the build resolves: "guarded" | "unguarded"
    syncImpl,         \* how the minimap sync is set up: "hook" (useSyncMiniMap) | "deferred" (setTimeout variant)
    storage,          \* localStorage: key -> [present, text]
    storageMode,      \* "ok" | "quota" (setItem throws) | "disabled" (every access throws)
    mapRef,           \* mapRef.current is attached
    miniRef,          \* miniRef.current is attached
    featureGroupRef,  \* featureGroupRef.current is attached
    syncOn,           \* the minimap sync listeners are registered on the primary map
    aois,             \* useState aois (whatever loadAOIs returned)
    searchQuery,      \* useState searchQuery
    suggestions,      \* useState suggestions
    inflight,         \* geocoding requests awaiting their response, oldest first
    outlinePolygon,   \* useState outlinePolygon ("" is null)
    confirmDisabled,  \* useState confirmDisabled
    viewMode,         \* useState viewMode
    theme,            \* useState theme
    fading,           \* useState fading
    wmsRef,           \* wmsRef.current holds a WMS layer that is on the map
    overlays,         \* number of WMS layers on the primary map
    requested,        \* the view mode the user asked for last (history)
    writer2,          \* another tab using utils/storage: [pc, op, list, arg, adds], and
                      \* what its last save dropped from and brought back to the store
    tooltip,          \* useState tooltip
    shapes,           \* featureGroup._layers, in insertion order
    mainView,         \* primary map [center, zoom]
    miniView,         \* minimap [center, zoom]
    highlights,       \* temporary highlight layers showAOI has put on the map
    timers,           \* pending setTimeout callbacks, in scheduling order
    toast,            \* the last notification shown
    err,              \* the uncaught error of the last handler ("none" if it completed)
    nextId,           \* number of UUIDs drawn so far + 1
    lastOp            \* the handler, effect or callback that ran last

vars == <<phase, storeImpl, syncImpl, storage, storageMode, mapRef, miniRef, featureGroupRef,
          syncOn, aois, searchQuery, suggestions, inflight, outlinePolygon,
          confirmDisabled, viewMode, theme, fading, wmsRef, overlays, requested,
          writer2, tooltip, shapes,
          mainView, miniView, highlights, timers, toast, err, nextId, lastOp>>

(* variable groups, for the frame conditions of the actions *)
lifeVars   == <<phase, mapRef, miniRef, featureGroupRef, syncOn>>
envVars    == <<storeImpl, syncImpl, storageMode, writer2>>
storeVars  == <<storage, aois, nextId>>
searchVars == <<searchQuery, suggestions, inflight>>
flowVars   == <<outlinePolygon, confirmDisabled, shapes>>
viewVars   == <<viewMode, theme, fading, wmsRef, overlays, requested>>
mapVars    == <<mainView, miniView, highlights>>
uiVars     == <<tooltip, toast>>

----------------------------------------------------------------------------
(* Bounds of the model *)

MaxConfirms == 2      \* UUIDs that confirmAOI may draw
MaxShapes   == 2      \* shapes the drawing surface may hold
MaxTimers   == 2      \* pending setTimeout callbacks
MaxInflight == 2      \* geocoding requests in flight
MaxZoom     == 13     \* highest zoom level the primary map is taken to
MaxHighlights == 2    \* highlight layers on the primary map at one time
MaxWriter2Adds == 1   \* records the other tab creates

----------------------------------------------------------------------------
(* Program constants *)

KEY         == "flowbit_aoi_features_v1"
STORAGE_KEY == "flowbit_aoi_list_v1"
(* the theme stored under the key of the AOI collection *)
THEME_KEY_ofAOIs == KEY
THEME_KEY   == "flowbit_theme_v1"
Keys        == {KEY, STORAGE_KEY, THEME_KEY}

INITIAL_CENTER == "50.9375,6.9603"
INITIAL_ZOOM   == 12
MiniInitialZoom == 8
SuggestionZoom == 12
MiniZoomOffset == 4

FitDelay       == 80
KeyFadeDelay   == 140
ThemeSwapDelay == 160
FadeEndDelay   == 280
HighlightDelay == 2400
TooltipDelay   == 2600
SyncDelay      == 300

----------------------------------------------------------------------------
(* localStorage *)

Absent     == [present |-> FALSE, text |-> <<>>]
Item(text) == [present |-> TRUE, text |-> text]

(* localStorage.getItem(key): throws when storage is disabled *)
getItem(key) ==
    IF storageMode = "disabled"
    THEN [err |-> "SecurityError", val |-> Absent]
    ELSE [err |-> "none", val |-> storage[key]]

(* localStorage.setItem(key, text): throws when disabled or over quota *)
setItem(key, text) ==
    IF storageMode = "disabled" THEN [err |-> "SecurityError", storage |-> storage]
    ELSE IF storageMode = "quota" THEN [err |-> "QuotaExceededError", storage |-> storage]
    ELSE [err |-> "none", storage |-> [storage EXCEPT ![key] = Item(text)]]

----------------------------------------------------------------------------
(* JSON.  An AOI object is written as seven tokens:                        *)
(*   "{" id name geometry.type geometry.coordinates createdAt "}"          *)

JSArray(items) == [kind |-> "array", items |-> items]
JSObject       == [kind |-> "object", items |-> <<>>]
JSNull         == [kind |-> "null", items |-> <<>>]
EmptyArray     == JSArray(<<>>)

AOIFields == <<"id", "name", "geometry.type", "geometry.coordinates", "createdAt">>
AOIWidth  == Len(AOIFields) + 2

RECURSIVE stringifyItems(_)
stringifyItems(items) ==
    IF items = <<>> THEN <<>>
    ELSE LET a == Head(items) IN
         <<"{", a.id, a.name, a.geometry.type, a.geometry.coordinates, a.createdAt, "}">>
         \o stringifyItems(Tail(items))

(* JSON.stringify(value) *)
JSONstringify(value) ==
    IF value.kind = "array" THEN <<"[">> \o stringifyItems(value.items) \o <<"]">>
    ELSE IF value.kind = "object" THEN <<"{", "}">>
    ELSE <<"null">>

Punctuation == {"[", "]", "{", "}", "null"}

RECURSIVE parseItems(_)
(* the objects between "[" and "]"; ok is FALSE when the text is not a list of objects *)
parseItems(text) ==
    IF text = <<>> THEN [ok |-> TRUE, items |-> <<>>]
    ELSE IF Len(text) < AOIWidth \/ text[1] # "{" \/ text[AOIWidth] # "}"
            \/ \E i \in 2..(AOIWidth - 1) : text[i] \in Punctuation
    THEN [ok |-> FALSE, items |-> <<>>]
    ELSE LET rest == parseItems(SubSeq(text, AOIWidth + 1, Len(text))) IN
         IF ~rest.ok THEN rest
         ELSE [ok |-> TRUE,
               items |-> <<[id |-> text[2], name |-> text[3],
                            geometry |-> [type |-> text[4], coordinates |-> text[5]],
                            createdAt |-> text[6]]>> \o rest.items]

(* JSON.parse(text): throws SyntaxError on anything that is not JSON *)
JSONparse(text) ==
    IF text = <<"null">> THEN [err |-> "none", val |-> JSNull]
    ELSE IF text = <<"{", "}">> THEN [err |-> "none", val |-> JSObject]
    ELSE IF Len(text) >= 2 /\ text[1] = "[" /\ text[Len(text)] = "]"
    THEN LET p == parseItems(SubSeq(text, 2, Len(text) - 1)) IN
         IF p.ok THEN [err |-> "none", val |-> JSArray(p.items)]
         ELSE [err |-> "SyntaxError", val |-> EmptyArray]
    ELSE [err |-> "SyntaxError", val |-> EmptyArray]

----------------------------------------------------------------------------
(* The AOI store.  Two modules claim the path utils/storage: the one in    *)
(* src/utils/storage.ts (key KEY, saveAOIs unguarded) and the one that     *)
(* follows utils/constants.ts (key STORAGE_KEY, saveAOIs in try/catch).    *)
(* storeImpl records which one the build resolves.                         *)

StoreKey == IF storeImpl = "unguarded" THEN KEY ELSE STORAGE_KEY

(* loadAOIs(): [] when the item is absent, empty or unreadable, else       *)
(* whatever JSON.parse returns                                             *)
loadAOIsFrom(st, key) ==
    IF storageMode = "disabled" THEN EmptyArray
    ELSE LET raw == st[key] IN
         IF ~raw.present \/ raw.text = <<>> THEN EmptyArray
         ELSE LET p == JSONparse(raw.text) IN
              IF p.err = "none" THEN p.val ELSE EmptyArray

loadAOIs == loadAOIsFrom(storage, StoreKey)

(* saveAOIs(list): the guarded module swallows the error of setItem, the   *)
(* unguarded one lets it escape                                            *)
saveAOIs(list) ==
    LET w == setItem(StoreKey, JSONstringify(list)) IN
    IF storeImpl = "guarded" THEN [err |-> "none", storage |-> w.storage] ELSE w

(* list.push(aoi): TypeError unless list is an array *)
push(list, aoi) ==
    IF list.kind = "array"
    THEN [err |-> "none", val |-> JSArray(Append(list.items, aoi))]
    ELSE [err |-> "TypeError", val |-> list]

(* addAOI(aoi): load, push, save *)
addAOI(aoi) ==
    LET pushed == push(loadAOIs, aoi) IN
    IF pushed.err # "none" THEN [err |-> pushed.err, storage |-> storage]
    ELSE saveAOIs(pushed.val)

RECURSIVE filterOut_fromMatch(_, _)
(* the filter cutting the list at the first match instead of skipping it *)
filterOut_fromMatch(items, id) ==
    IF items = <<>> THEN <<>>
    ELSE IF Head(items).id # id THEN <<Head(items)>> \o filterOut_fromMatch(Tail(items), id)
    ELSE <<>>

RECURSIVE filterOut(_, _)
filterOut(items, id) ==
    IF items = <<>> THEN <<>>
    ELSE IF Head(items).id # id THEN <<Head(items)>> \o filterOut(Tail(items), id)
    ELSE filterOut(Tail(items), id)

(* list.filter((x) => x.id !== id): TypeError unless list is an array *)
filter(list, id) ==
    IF list.kind = "array"
    THEN [err |-> "none", val |-> JSArray(filterOut(list.items, id))]
    ELSE [err |-> "TypeError", val |-> list]

----------------------------------------------------------------------------
(* Values the environment supplies *)

UUIDs  == <<"uuid-1", "uuid-2", "uuid-3", "uuid-4", "uuid-5">>
Clock  == <<"t1", "t2", "t3", "t4", "t5">>
Labels == <<"Area t1", "Area t2", "Area t3", "Area t4", "Area t5">>

(* crypto.randomUUID(): the n-th identifier drawn; no identifier is drawn twice *)
randomUUID(n) == UUIDs[n]

(* the rings the user can draw on the map *)
Drawings == {"rect-1", "poly-2"}

(* geocoder results: display_name, lat/lon present or not, geojson ("" when missing) *)
sCologne == [display_name |-> "Cologne, NRW", point |-> "50.94,6.96", geojson |-> "ring-cologne"]
sDom     == [display_name |-> "Cologne Cathedral", point |-> "50.941,6.958", geojson |-> ""]
sBonn    == [display_name |-> "Bonn, NRW", point |-> "", geojson |-> "ring-bonn"]

Queries == {"", "Cologne", "Bonn"}

(* the list the geocoding service returns for a query *)
Results(q) ==
    IF q = "Cologne" THEN <<sCologne, sDom>>
    ELSE IF q = "Bonn" THEN <<sBonn>>
    ELSE <<>>

Range(seq) == {seq[i] : i \in 1..Len(seq)}

Max(a, b) == IF a >= b THEN a ELSE b

----------------------------------------------------------------------------
(* Geometry bridge *)

(* layer.toGeoJSON(): a drawn layer gives a Feature, an L.geoJSON group a  *)
(* FeatureCollection                                                       *)
toGeoJSON(layer) ==
    [type |-> IF layer.kind = "drawn" THEN "Feature" ELSE "FeatureCollection",
     coordinates |-> layer.coordinates]

(* map.fitBounds(bounds): the view that shows the bounds of the ring *)
fitBounds(ring) ==
    [center |-> ring,
     zoom |-> IF ring \in Drawings THEN INITIAL_ZOOM + 1 ELSE INITIAL_ZOOM - 2]

----------------------------------------------------------------------------
(* Minimap synchroniser *)

(* sync(): the minimap takes the primary map's centre and its zoom less    *)
(* the offset, floored at 0                                                *)
sync(main) == [center |-> main.center, zoom |-> Max(0, main.zoom - MiniZoomOffset)]

(* a "move"/"zoom" event of the primary map reaches sync only through the  *)
(* listeners useSyncMiniMap registered                                     *)
MoveMain(view) ==
    /\ mainView' = view
    /\ miniView' = IF syncOn THEN sync(view) ELSE miniView

----------------------------------------------------------------------------
(* Timers *)

Timer(kind, delay, arg) == [kind |-> kind, delay |-> delay, arg |-> arg]

(* a timer fires before every timer that was scheduled after it with the   *)
(* same or a longer delay                                                  *)
CanFire(i) == \A j \in 1..(i - 1) : timers[j].delay > timers[i].delay

RemoveAt(seq, i) == SubSeq(seq, 1, i - 1) \o SubSeq(seq, i + 1, Len(seq))

(* showTooltip(text, x, y) *)
showTooltip(text, x, y) == [text |-> text, x |-> x, y |-> y, visible |-> TRUE]

HideTooltipTimer == Timer("hideTooltip", TooltipDelay, "")

(* a re-render with a value of aois that is not an array throws in aois.map *)
Render(list) == IF list.kind = "array" THEN phase ELSE "crashed"

----------------------------------------------------------------------------
(* View state machine *)

(* an initialiser that ignores what is stored *)
initialTheme_ignoresStorage == "light"

(* the theme initialiser of useState *)
initialTheme ==
    LET r == getItem(THEME_KEY) IN
    IF r.err # "none" THEN "light"
    ELSE IF r.val = Item(<<"dark">>) THEN "dark" ELSE "light"

(* map.removeLayer(wmsRef.current), done when the ref holds a layer that   *)
(* the map has                                                             *)
removeLayer(count, held) == IF held THEN count - 1 ELSE count

(* the WMS effect swallowing a failed installation without a word *)
WmsEffect_silent(mode, installed) ==
    IF ~mapRef THEN [wmsRef |-> wmsRef, overlays |-> overlays, toast |-> toast]
    ELSE IF mode = "base"
    THEN [wmsRef |-> installed, overlays |-> removeLayer(overlays, wmsRef) + (IF installed THEN 1 ELSE 0),
          toast |-> toast]
    ELSE [wmsRef |-> FALSE, overlays |-> removeLayer(overlays, wmsRef), toast |-> toast]

(* the WMS effect without the removal of the layer it installed before *)
WmsEffect_keepsOld(mode, installed) ==
    IF ~mapRef THEN [wmsRef |-> wmsRef, overlays |-> overlays, toast |-> toast]
    ELSE IF mode = "base"
    THEN IF installed THEN [wmsRef |-> TRUE, overlays |-> overlays + 1, toast |-> toast]
         ELSE [wmsRef |-> wmsRef, overlays |-> overlays, toast |-> "Failed to load NRW WMS"]
    ELSE [wmsRef |-> wmsRef, overlays |-> overlays, toast |-> toast]

(* the WMS switching effect, run after viewMode became mode; installed     *)
(* tells whether createWmsLayer returned                                   *)
WmsEffect(mode, installed) ==
    IF ~mapRef THEN [wmsRef |-> wmsRef, overlays |-> overlays, toast |-> toast]
    ELSE LET left == removeLayer(overlays, wmsRef) IN
         IF mode = "base"
         THEN IF installed THEN [wmsRef |-> TRUE, overlays |-> left + 1, toast |-> toast]
              ELSE [wmsRef |-> FALSE, overlays |-> left, toast |-> "Failed to load NRW WMS"]
         ELSE [wmsRef |-> FALSE, overlays |-> left, toast |-> toast]

(* setViewMode(mode) followed by the effects of the re-render: React     *)
(* re-renders only when the state changes                                  *)
SetViewModeTo(mode) ==
    IF mode = viewMode
    THEN UNCHANGED <<viewMode, wmsRef, overlays, toast>>
    ELSE \E installed \in BOOLEAN :
           LET e == WmsEffect(mode, installed) IN
           /\ viewMode' = mode
           /\ wmsRef' = e.wmsRef
           /\ overlays' = e.overlays
           /\ toast' = e.toast

----------------------------------------------------------------------------
(* Initial state: the component function has run once (useState            *)
(* initialisers), no effect has run and no map instance is attached.       *)

(* the other tab before its first store operation; adds counts the        *)
(* records it has created                                                  *)
Writer2Idle(adds) ==
    [pc |-> "idle", op |-> "none", list |-> EmptyArray, arg |-> [id |-> ""], adds |-> adds,
     lost |-> {}, revived |-> {}]

NoTooltip == [text |-> "", x |-> 0, y |-> 0, visible |-> FALSE]

InitialView == [center |-> INITIAL_CENTER, zoom |-> INITIAL_ZOOM]
MiniInitialView == [center |-> INITIAL_CENTER, zoom |-> MiniInitialZoom]

Init ==
    /\ phase = "rendered"
    /\ storeImpl \in {"guarded", "unguarded"}
    /\ syncImpl \in {"hook", "deferred"}
    /\ storage = [k \in Keys |-> Absent]
    /\ storageMode = "ok"
    /\ mapRef = FALSE
    /\ miniRef = FALSE
    /\ featureGroupRef = FALSE
    /\ syncOn = FALSE
    /\ aois = EmptyArray
    /\ searchQuery = ""
    /\ suggestions = <<>>
    /\ inflight = <<>>
    /\ outlinePolygon = ""
    /\ confirmDisabled = TRUE
    /\ viewMode = "map"
    /\ theme = initialTheme
    /\ fading = FALSE
    /\ wmsRef = FALSE
    /\ overlays = 0
    /\ requested = "map"
    /\ writer2 = Writer2Idle(0)
    /\ tooltip = NoTooltip
    /\ shapes = <<>>
    /\ mainView = InitialView
    /\ miniView = MiniInitialView
    /\ highlights = 0
    /\ timers = <<>>
    /\ toast = "none"
    /\ err = "none"
    /\ nextId = 1
    /\ lastOp = "render"

----------------------------------------------------------------------------
(* Lifecycle *)

(* The effects of the first commit: load the AOIs, useSyncMiniMap, the WMS *)
(* effect (viewMode is "map", nothing to remove or install) and the        *)
(* keydown listener.                                                       *)
MountEffects ==
    /\ phase = "rendered"
    /\ aois' = loadAOIs
    /\ phase' = IF aois'.kind = "array" THEN "mounted" ELSE "crashed"
    /\ IF syncImpl = "hook"
       THEN /\ IF mapRef /\ miniRef
               THEN syncOn' = TRUE /\ miniView' = sync(mainView)
               ELSE UNCHANGED <<syncOn, miniView>>
            /\ UNCHANGED timers
       ELSE /\ timers' = Append(timers, Timer("attachSync", SyncDelay, ""))
            /\ UNCHANGED <<syncOn, miniView>>
    /\ err' = "none"
    /\ lastOp' = "mount"
    /\ UNCHANGED <<envVars, storage, nextId, mapRef, miniRef, featureGroupRef,
                   searchVars, flowVars, viewVars, mainView, highlights, uiVars>>

(* AttachMapRef of the primary MapContainer, and the ref callback of the   *)
(* FeatureGroup inside it: they run in the commit that renders the         *)
(* children of the MapContainer, after the first commit                    *)
AttachMain ==
    /\ phase = "mounted"
    /\ ~mapRef
    /\ mapRef' = TRUE
    /\ featureGroupRef' = TRUE
    /\ lastOp' = "attachMain"
    /\ UNCHANGED <<phase, miniRef, syncOn, envVars, storeVars, searchVars, flowVars,
                   viewVars, mapVars, uiVars, timers, err>>

(* AttachMapRef of the minimap's MapContainer *)
AttachMini ==
    /\ phase = "mounted"
    /\ ~miniRef
    /\ miniRef' = TRUE
    /\ lastOp' = "attachMini"
    /\ UNCHANGED <<phase, mapRef, featureGroupRef, syncOn, envVars, storeVars, searchVars,
                   flowVars, viewVars, mapVars, uiVars, timers, err>>

(* clearTimeout of the pending timers of one kind *)
clearTimeout(seq, kind) == SelectSeq(seq, LAMBDA t : t.kind # kind)

(* The viewer is unmounted: the cleanups of its effects run.  The hook     *)
(* removes the listeners it registered; the timer-deferred variant clears  *)
(* its timeout, and the function its callback returned is called by        *)
(* nobody.  The other timers are not cleared.                              *)
Unmount ==
    /\ phase = "mounted"
    /\ phase' = "unmounted"
    /\ IF syncImpl = "hook"
       THEN syncOn' = FALSE /\ UNCHANGED timers
       ELSE timers' = clearTimeout(timers, "attachSync") /\ UNCHANGED syncOn
    /\ err' = "none"
    /\ lastOp' = "unmount"
    /\ UNCHANGED <<mapRef, miniRef, featureGroupRef, envVars, storeVars, searchVars,
                   flowVars, viewVars, mapVars, uiVars>>

(* The page is reloaded: component state starts over, localStorage stays,  *)
(* pending timers die with the page                                        *)
Reload ==
    /\ phase # "rendered"
    /\ phase' = "rendered"
    /\ mapRef' = FALSE /\ miniRef' = FALSE /\ featureGroupRef' = FALSE /\ syncOn' = FALSE
    /\ aois' = EmptyArray
    /\ searchQuery' = "" /\ suggestions' = <<>> /\ inflight' = <<>>
    /\ outlinePolygon' = "" /\ confirmDisabled' = TRUE /\ shapes' = <<>>
    /\ viewMode' = "map" /\ theme' = initialTheme /\ fading' = FALSE /\ wmsRef' = FALSE
    /\ overlays' = 0 /\ requested' = "map"
    /\ tooltip' = NoTooltip /\ toast' = "none"
    /\ mainView' = InitialView /\ miniView' = MiniInitialView /\ highlights' = 0
    /\ timers' = <<>>
    /\ err' = "none"
    /\ lastOp' = "render"
    /\ UNCHANGED <<envVars, storage, nextId>>

----------------------------------------------------------------------------
(* Environment of localStorage *)

StorageModes == {"ok", "quota", "disabled"}

(* the browser's storage becomes full, is disabled, or recovers *)
StorageFault(mode) ==
    /\ mode # storageMode
    /\ storageMode' = mode
    /\ lastOp' = "storageFault"
    /\ UNCHANGED <<phase, mapRef, miniRef, featureGroupRef, syncOn, storeImpl, syncImpl, writer2, storeVars,
                   searchVars, flowVars, viewVars, mapVars, uiVars, timers, err>>

(* what some other page of the origin may leave under the AOI key: nothing, *)
(* an empty string, text that is not JSON, or JSON that is not an array    *)
ForeignAOIItems == {Absent, Item(<<>>), Item(<<"not json">>), Item(<<"{", "}">>), Item(<<"null">>)}

ForeignWrite(key, item) ==
    /\ storageMode # "disabled"
    /\ storage[key] # item
    /\ storage' = [storage EXCEPT ![key] = item]
    /\ lastOp' = "foreignWrite"
    /\ UNCHANGED <<lifeVars, envVars, aois, nextId, searchVars, flowVars, viewVars,
                   mapVars, uiVars, timers, err>>

----------------------------------------------------------------------------
(* A second writer: another tab of the same build.  Each of its store      *)
(* operations is load, modify, save (addAOI, deleteAOI); the steps of the  *)
(* viewer may fall between its load and its save.                          *)

Writer2UUIDs == <<"uuid-w1", "uuid-w2", "uuid-w3">>

Writer2AOI(n) ==
    [id |-> Writer2UUIDs[n], name |-> "Area w",
     geometry |-> [type |-> "Feature", coordinates |-> "poly-2"], createdAt |-> "tw"]

(* const list = loadAOIs() of addAOI(aoi) or deleteAOI(id) in the other tab *)
Writer2Load(op, a) ==
    /\ writer2.pc = "idle"
    /\ \/ op = "add" /\ writer2.adds < MaxWriter2Adds /\ a = Writer2AOI(writer2.adds + 1)
       \/ op = "delete" /\ a \in Range(loadAOIs.items)
    /\ writer2' = [writer2 EXCEPT !.pc = "loaded", !.op = op, !.list = loadAOIs, !.arg = a]
    /\ lastOp' = "writer2Load"
    /\ UNCHANGED <<lifeVars, storeImpl, syncImpl, storageMode, storeVars, searchVars, flowVars,
                   viewVars, mapVars, uiVars, timers, err>>

(* a store operation that reads the collection again when it saves *)
writer2Result_reloads(w) ==
    IF w.op = "add" THEN push(loadAOIs, w.arg) ELSE filter(loadAOIs, w.arg.id)

(* list.push(aoi) of addAOI, loadAOIs().filter(...) of deleteAOI: computed *)
(* from the list the operation loaded                                      *)
writer2Result(w) ==
    IF w.op = "add" THEN push(w.list, w.arg) ELSE filter(w.list, w.arg.id)

(* saveAOIs(list) of the operation the other tab has under way *)
Writer2Save ==
    /\ writer2.pc = "loaded"
    /\ lastOp' = "writer2Save"
    /\ LET result == writer2Result(writer2)
           saved == IF result.err = "none" THEN saveAOIs(result.val)
                    ELSE [err |-> result.err, storage |-> storage]
           after == loadAOIsFrom(saved.storage, StoreKey).items
           before == loadAOIs.items
           mine == IF writer2.op = "add" THEN {writer2.arg} ELSE {}
           gone == IF writer2.op = "delete"
                   THEN {x \in Range(before) : x.id = writer2.arg.id} ELSE {} IN
       /\ storage' = saved.storage
       /\ writer2' = [writer2 EXCEPT !.pc = "idle",
                                     !.adds = @ + (IF writer2.op = "add" THEN 1 ELSE 0),
                                     !.lost = (Range(before) \ Range(after)) \ gone,
                                     !.revived = (Range(after) \ Range(before)) \ mine]
    /\ UNCHANGED <<lifeVars, storeImpl, syncImpl, storageMode, aois, nextId, searchVars,
                   flowVars, viewVars, mapVars, uiVars, timers, err>>

----------------------------------------------------------------------------
(* Suggestion session *)

(* a request that aborts the requests still under way *)
fetch_abortsEarlier(pending, q) == <<q>>

(* fetch(url): one more request under way; nothing cancels the earlier ones *)
fetch(pending, q) == Append(pending, q)

(* a failed lookup leaving the list as it was *)
suggestionsAfter_keepsOnFailure(current, outcome, data) ==
    IF outcome = "list" THEN data ELSE current

(* what fetchSuggestions passes to setSuggestions once the lookup has      *)
(* settled: the data when it is an array, [] when it is not or when fetch  *)
(* or res.json() threw                                                     *)
suggestionsAfter(current, outcome, data) ==
    IF outcome = "list" THEN data ELSE <<>>

(* handleInputChange: setSearchQuery(v); fetchSuggestions(v) up to its     *)
(* first await                                                             *)
HandleInputChange(q) ==
    /\ phase = "mounted"
    /\ searchQuery' = q
    /\ IF q = ""
       THEN suggestions' = <<>> /\ UNCHANGED inflight
       ELSE /\ Len(inflight) < MaxInflight
            /\ inflight' = fetch(inflight, q)
            /\ UNCHANGED suggestions
    /\ err' = "none"
    /\ lastOp' = "handleInputChange"
    /\ UNCHANGED <<lifeVars, envVars, storeVars, flowVars, viewVars, mapVars, uiVars, timers>>

Outcomes == {"list", "not a list", "failed"}

(* fetchSuggestions after its awaits: the response of request i arrives *)
FetchSettled(i, outcome) ==
    /\ phase = "mounted"
    /\ i \in 1..Len(inflight)
    /\ suggestions' = suggestionsAfter(suggestions, outcome, Results(inflight[i]))
    /\ inflight' = RemoveAt(inflight, i)
    /\ err' = "none"
    /\ lastOp' = "fetchSettled"
    /\ UNCHANGED <<lifeVars, envVars, storeVars, searchQuery, flowVars, viewVars, mapVars,
                   uiVars, timers>>

(* every suggestion taken to carry an outline *)
hasGeojson_always(s) == TRUE

(* if (s.geojson) *)
hasGeojson(s) == s.geojson # ""

(* applySuggestion(s): s is an entry of the rendered suggestion list *)
ApplySuggestion(s) ==
    /\ phase = "mounted"
    /\ s \in Range(suggestions)
    /\ Len(timers) + (IF hasGeojson(s) THEN 2 ELSE 1) <= MaxTimers
    /\ searchQuery' = s.display_name
    /\ suggestions' = <<>>
    /\ tooltip' = showTooltip("Outlined area (if available).", 220, 90)
    /\ IF s.point # "" /\ mapRef
       THEN MoveMain([center |-> s.point, zoom |-> SuggestionZoom])
       ELSE UNCHANGED <<mainView, miniView>>
    /\ IF hasGeojson(s)
       THEN /\ outlinePolygon' = s.geojson
            /\ confirmDisabled' = FALSE
            /\ timers' = timers \o <<HideTooltipTimer, Timer("fit", FitDelay, s.geojson)>>
       ELSE /\ outlinePolygon' = ""
            /\ confirmDisabled' = TRUE
            /\ timers' = Append(timers, HideTooltipTimer)
    /\ err' = "none"
    /\ lastOp' = "applySuggestion"
    /\ UNCHANGED <<lifeVars, envVars, storeVars, inflight, shapes, viewVars, highlights, toast>>

----------------------------------------------------------------------------
(* Drawing surface *)

DrawnLayer(ring)   == [kind |-> "drawn", coordinates |-> ring]
OutlineLayer(ring) == [kind |-> "outline", coordinates |-> ring]

(* draw:created: the EditControl adds the finished layer to the feature    *)
(* group and calls onCreated                                               *)
OnCreated(ring) ==
    /\ phase = "mounted"
    /\ featureGroupRef
    /\ Len(shapes) < MaxShapes
    /\ Len(timers) < MaxTimers
    /\ shapes' = Append(shapes, DrawnLayer(ring))
    /\ confirmDisabled' = FALSE
    /\ tooltip' = showTooltip("Shape drawn - click Confirm to save", 260, 120)
    /\ timers' = Append(timers, HideTooltipTimer)
    /\ err' = "none"
    /\ lastOp' = "onCreated"
    /\ UNCHANGED <<lifeVars, envVars, storeVars, searchVars, outlinePolygon, viewVars,
                   mapVars, toast>>

RECURSIVE Keep(_, _, _)
(* the layers of seq whose index (counted from i) is not in gone *)
Keep(seq, gone, i) ==
    IF seq = <<>> THEN <<>>
    ELSE (IF i \in gone THEN <<>> ELSE <<Head(seq)>>) \o Keep(Tail(seq), gone, i + 1)

(* onDeleted disabling confirm whatever is left *)
noLayerLeft_always(layers) == TRUE

(* onDeleted: count === 0, count being the number of layers left *)
noLayerLeft(layers) == Len(layers) = 0

(* draw:deleted: the delete tool has removed the layers the user picked    *)
(* (possibly none) from the feature group and calls onDeleted              *)
OnDeleted(gone) ==
    /\ phase = "mounted"
    /\ featureGroupRef
    /\ gone \subseteq 1..Len(shapes)
    /\ shapes' = Keep(shapes, gone, 1)
    /\ confirmDisabled' = noLayerLeft(shapes')
    /\ aois' = loadAOIs
    /\ phase' = Render(aois')
    /\ err' = "none"
    /\ lastOp' = "onDeleted"
    /\ UNCHANGED <<mapRef, miniRef, featureGroupRef, syncOn, envVars, storage, nextId,
                   searchVars, outlinePolygon, viewVars, mapVars, uiVars, timers>>

(* applyOutlineAsBase going on without a staged outline *)
noOutline_never(outline) == FALSE

(* !outlinePolygon *)
noOutline(outline) == outline = ""

(* the layer added to what the feature group already holds *)
clearLayersAndAdd_keeps(layers, layer) == Append(layers, layer)

(* fg.clearLayers(); layer.addTo(fg) *)
clearLayersAndAdd(layers, layer) == <<layer>>

(* applyOutlineAsBase() *)
ApplyOutlineAsBase ==
    /\ phase = "mounted"
    /\ IF noOutline(outlinePolygon)
       THEN /\ toast' = "No outline available."
            /\ UNCHANGED <<shapes, confirmDisabled, mainView, miniView>>
       ELSE IF ~featureGroupRef
       THEN UNCHANGED <<toast, shapes, confirmDisabled, mainView, miniView>>
       ELSE /\ shapes' = clearLayersAndAdd(shapes, OutlineLayer(outlinePolygon))
            /\ IF mapRef THEN MoveMain(fitBounds(outlinePolygon))
                         ELSE UNCHANGED <<mainView, miniView>>
            /\ confirmDisabled' = FALSE
            /\ toast' = "Outline applied - edit if needed."
    /\ err' = "none"
    /\ lastOp' = "applyOutlineAsBase"
    /\ UNCHANGED <<lifeVars, envVars, storeVars, searchVars, outlinePolygon, viewVars,
                   highlights, tooltip, timers>>

----------------------------------------------------------------------------
(* Saving and deleting AOIs *)

(* the record confirmAOI builds from the first layer of the feature group  *)
NewAOI(layer) ==
    [id |-> randomUUID(nextId), name |-> Labels[nextId],
     geometry |-> toGeoJSON(layer), createdAt |-> Clock[nextId]]

(* confirmAOI accepting whatever the feature group holds *)
confirmRejection_none(attached, layers) == "none"

(* the two early returns of confirmAOI: the toast.error it shows, "none"   *)
(* when it goes on to save                                                 *)
confirmRejection(attached, layers) ==
    IF ~attached THEN "No area to confirm"
    ELSE IF Len(layers) = 0 THEN "Draw or apply an outline first."
    ELSE "none"

(* confirmAOI(): the Confirm button is disabled while confirmDisabled *)
ConfirmAOI ==
    /\ phase = "mounted"
    /\ ~confirmDisabled
    /\ lastOp' = "confirmAOI"
    /\ IF confirmRejection(featureGroupRef, shapes) # "none"
       THEN /\ toast' = confirmRejection(featureGroupRef, shapes)
            /\ err' = "none"
            /\ UNCHANGED <<phase, storeVars>>
       ELSE IF Len(shapes) = 0
       THEN \* layers[0] is undefined: layers[0].toGeoJSON() throws
            /\ err' = "TypeError"
            /\ UNCHANGED <<phase, storeVars, toast>>
       ELSE /\ nextId <= MaxConfirms
            /\ nextId' = nextId + 1
            /\ LET saved == addAOI(NewAOI(shapes[1])) IN
               IF saved.err # "none"
               THEN /\ err' = saved.err
                    /\ UNCHANGED <<phase, storage, aois, toast>>
               ELSE /\ storage' = saved.storage
                    /\ aois' = loadAOIsFrom(saved.storage, StoreKey)
                    /\ phase' = Render(aois')
                    /\ toast' = "Area of Interest saved"
                    /\ err' = "none"
    /\ UNCHANGED <<mapRef, miniRef, featureGroupRef, syncOn, envVars, searchVars, flowVars,
                   viewVars, mapVars, tooltip, timers>>

(* deleteAOI(id): the Delete button of a row of the rendered AOI list *)
DeleteAOI(id) ==
    /\ phase = "mounted"
    /\ \E a \in Range(aois.items) : a.id = id
    /\ lastOp' = "deleteAOI"
    /\ LET list == filter(loadAOIs, id) IN
       IF list.err # "none"
       THEN /\ err' = list.err
            /\ UNCHANGED <<phase, storage, aois, toast>>
       ELSE LET saved == saveAOIs(list.val) IN
            IF saved.err # "none"
            THEN /\ err' = saved.err
                 /\ UNCHANGED <<phase, storage, aois, toast>>
            ELSE /\ storage' = saved.storage
                 /\ aois' = list.val
                 /\ phase' = Render(aois')
                 /\ toast' = "AOI deleted"
                 /\ err' = "none"
    /\ UNCHANGED <<mapRef, miniRef, featureGroupRef, syncOn, envVars, nextId, searchVars,
                   flowVars, viewVars, mapVars, tooltip, timers>>

----------------------------------------------------------------------------
(* View mode and theme *)

OtherTheme(t) == IF t = "light" THEN "dark" ELSE "light"

(* the "Use NRW" / "Use Map" buttons of the sidebar and the Base / Map     *)
(* buttons at the bottom left: onClick={() => setViewMode(mode)}           *)
ViewButton(mode) ==
    /\ phase = "mounted"
    /\ SetViewModeTo(mode)
    /\ requested' = mode
    /\ err' = "none"
    /\ lastOp' = "viewButton"
    /\ UNCHANGED <<lifeVars, envVars, storeVars, searchVars, flowVars, theme, fading,
                   mapVars, tooltip, timers>>

(* applyTheme without its early return *)
applyTheme_noReturn(next) ==
    /\ Len(timers) < MaxTimers
    /\ fading' = TRUE
    /\ timers' = Append(timers, Timer("swapTheme", ThemeSwapDelay, next))

(* applyTheme(next): nothing when next is the current theme, else the     *)
(* fade starts and the swap is scheduled                                   *)
applyTheme(next) ==
    IF theme = next
    THEN UNCHANGED <<fading, timers>>
    ELSE /\ Len(timers) < MaxTimers
         /\ fading' = TRUE
         /\ timers' = Append(timers, Timer("swapTheme", ThemeSwapDelay, next))

(* a call of applyTheme: the theme button of the sidebar passes the other  *)
(* theme, a caller of the prop may pass either                             *)
ApplyTheme(next) ==
    /\ phase = "mounted"
    /\ applyTheme(next)
    /\ err' = "none"
    /\ lastOp' = "applyTheme"
    /\ UNCHANGED <<lifeVars, envVars, storeVars, searchVars, flowVars, viewMode, theme,
                   wmsRef, overlays, requested, mapVars, uiVars>>

(* resetMap() *)
ResetMapEffect ==
    IF mapRef
    THEN MoveMain(InitialView) /\ toast' = "Map reset"
    ELSE UNCHANGED <<mainView, miniView, toast>>

(* the Reset button *)
ResetMap ==
    /\ phase = "mounted"
    /\ ResetMapEffect
    /\ err' = "none"
    /\ lastOp' = "resetMap"
    /\ UNCHANGED <<lifeVars, envVars, storeVars, searchVars, flowVars, viewVars,
                   highlights, tooltip, timers>>

ShortcutKeys == {"b", "m", "r", "d"}

(* handleKey(e) for a key pressed outside an input *)
HandleKey(k) ==
    /\ phase = "mounted"
    /\ err' = "none"
    /\ lastOp' = "handleKey"
    /\ IF k = "b" \/ k = "m"
       THEN /\ Len(timers) < MaxTimers
            /\ fading' = TRUE
            /\ timers' = Append(timers, Timer("swapView", KeyFadeDelay,
                                             IF k = "b" THEN "base" ELSE "map"))
            /\ toast' = IF k = "b" THEN "Switched to Base (NRW WMS)"
                                  ELSE "Switched to Map View"
            /\ requested' = IF k = "b" THEN "base" ELSE "map"
            /\ UNCHANGED <<mainView, miniView>>
       ELSE IF k = "r"
       THEN /\ ResetMapEffect
            /\ UNCHANGED <<fading, timers, requested>>
       ELSE /\ k = "d"
            /\ applyTheme(OtherTheme(theme))
            /\ UNCHANGED <<mainView, miniView, toast, requested>>
    /\ UNCHANGED <<lifeVars, envVars, storeVars, searchVars, flowVars, viewMode, theme,
                   wmsRef, overlays, highlights, tooltip>>

----------------------------------------------------------------------------
(* Timer callbacks.  After a crash the component is unmounted and its      *)
(* state setters do nothing; localStorage is still written.                *)

FireTimer(i) ==
    /\ phase \in {"mounted", "crashed", "unmounted"}
    /\ i \in 1..Len(timers)
    /\ CanFire(i)
    /\ lastOp' = "timer"
    /\ err' = "none"
    /\ LET t == timers[i]
           live == phase = "mounted" IN
       CASE t.kind = "swapTheme" ->
              /\ theme' = IF live THEN t.arg ELSE theme
              /\ storage' = setItem(THEME_KEY, <<t.arg>>).storage
              /\ timers' = Append(RemoveAt(timers, i), Timer("endFade", FadeEndDelay, ""))
              /\ UNCHANGED <<viewMode, fading, wmsRef, overlays, requested, mapVars, uiVars>>
         [] t.kind = "endFade" ->
              /\ fading' = IF live THEN FALSE ELSE fading
              /\ timers' = RemoveAt(timers, i)
              /\ UNCHANGED <<viewMode, theme, wmsRef, overlays, requested, storage, mapVars,
                             uiVars>>
         [] t.kind = "swapView" ->
              /\ IF live THEN SetViewModeTo(t.arg)
                         ELSE UNCHANGED <<viewMode, wmsRef, overlays, toast>>
              /\ fading' = IF live THEN FALSE ELSE fading
              /\ timers' = RemoveAt(timers, i)
              /\ UNCHANGED <<theme, requested, storage, mapVars, tooltip>>
         [] t.kind = "hideTooltip" ->
              /\ tooltip' = IF live THEN [tooltip EXCEPT !.visible = FALSE] ELSE tooltip
              /\ timers' = RemoveAt(timers, i)
              /\ UNCHANGED <<viewVars, storage, mapVars, toast>>
         [] t.kind = "fit" ->
              /\ IF live /\ mapRef THEN MoveMain(fitBounds(t.arg))
                                    ELSE UNCHANGED <<mainView, miniView>>
              /\ timers' = RemoveAt(timers, i)
              /\ UNCHANGED <<viewVars, storage, highlights, uiVars>>
         [] t.kind = "removeHighlight" ->
              /\ highlights' = highlights - 1
              /\ timers' = RemoveAt(timers, i)
              /\ UNCHANGED <<viewVars, storage, mainView, miniView, uiVars>>
         [] t.kind = "attachSync" ->
              /\ miniView' = IF mapRef /\ miniRef THEN sync(mainView) ELSE miniView
              /\ timers' = RemoveAt(timers, i)
              /\ UNCHANGED <<viewVars, storage, mainView, highlights, uiVars>>
    /\ syncOn' = (syncOn \/ (timers[i].kind = "attachSync" /\ mapRef /\ miniRef))
    /\ UNCHANGED <<phase, mapRef, miniRef, featureGroupRef, envVars, aois, nextId,
                   searchVars, flowVars>>

----------------------------------------------------------------------------
(* The primary map *)

(* the zoom buttons: mapRef.current?.zoomIn() / zoomOut() *)
ZoomIn ==
    /\ phase = "mounted"
    /\ mapRef
    /\ mainView.zoom < MaxZoom
    /\ MoveMain([mainView EXCEPT !.zoom = @ + 1])
    /\ err' = "none"
    /\ lastOp' = "zoomIn"
    /\ UNCHANGED <<lifeVars, envVars, storeVars, searchVars, flowVars, viewVars,
                   highlights, uiVars, timers>>

ZoomOut ==
    /\ phase = "mounted"
    /\ mapRef
    /\ mainView.zoom > 0
    /\ MoveMain([mainView EXCEPT !.zoom = @ - 1])
    /\ err' = "none"
    /\ lastOp' = "zoomOut"
    /\ UNCHANGED <<lifeVars, envVars, storeVars, searchVars, flowVars, viewVars,
                   highlights, uiVars, timers>>

Places == {INITIAL_CENTER, "51.2,6.8"}

(* the user drags the primary map *)
Drag(place) ==
    /\ phase = "mounted"
    /\ mapRef
    /\ place # mainView.center
    /\ MoveMain([mainView EXCEPT !.center = place])
    /\ err' = "none"
    /\ lastOp' = "drag"
    /\ UNCHANGED <<lifeVars, envVars, storeVars, searchVars, flowVars, viewVars,
                   highlights, uiVars, timers>>

----------------------------------------------------------------------------
(* Zoom and show of a saved AOI *)

(* the coordinates of a geometry that holds no position: [] *)
NoCoordinates == "no-coordinates"

(* L.geoJSON(geometry).getBounds().isValid(): a layer built from a         *)
(* geometry without positions has no bounds, and fitBounds throws          *)
(* "Bounds are not valid." on them                                         *)
isValid(geometry) == geometry.coordinates # NoCoordinates

(* a record with a geometry that holds no position, as an earlier version  *)
(* of the page or another page of the origin may have stored it            *)
LegacyAOI ==
    [id |-> "uuid-0", name |-> "Area t0",
     geometry |-> [type |-> "Polygon", coordinates |-> NoCoordinates], createdAt |-> "t0"]

LegacyItems == {Item(JSONstringify(JSArray(<<LegacyAOI>>)))}

(* zoomToSaved(a): the layer is built, then fitBounds runs only when the   *)
(* map is attached (optional chaining skips the argument too)              *)
ZoomToSaved(a) ==
    /\ phase = "mounted"
    /\ a \in Range(aois.items)
    /\ IF ~mapRef
       THEN UNCHANGED <<mainView, miniView, toast>>
       ELSE IF isValid(a.geometry)
       THEN MoveMain(fitBounds(a.geometry.coordinates)) /\ UNCHANGED toast
       ELSE toast' = "Cannot zoom" /\ UNCHANGED <<mainView, miniView>>
    /\ err' = "none"
    /\ lastOp' = "zoomToSaved"
    /\ UNCHANGED <<lifeVars, envVars, storeVars, searchVars, flowVars, viewVars,
                   highlights, tooltip, timers>>

(* the body of showAOI(a) with the map attached: the highlight layer is    *)
(* added to the map, then fitBounds runs, then the removal is scheduled; a *)
(* throw of fitBounds skips the scheduling                                 *)
showAOI(a) ==
    /\ highlights < MaxHighlights
    /\ highlights' = highlights + 1
    /\ IF isValid(a.geometry)
       THEN /\ Len(timers) < MaxTimers
            /\ MoveMain(fitBounds(a.geometry.coordinates))
            /\ timers' = Append(timers, Timer("removeHighlight", HighlightDelay, a.id))
            /\ UNCHANGED toast
       ELSE /\ toast' = "Cannot show AOI"
            /\ UNCHANGED <<mainView, miniView, timers>>

(* the Show button of a saved AOI *)
ShowAOI(a) ==
    /\ phase = "mounted"
    /\ a \in Range(aois.items)
    /\ IF ~mapRef
       THEN UNCHANGED <<mapVars, toast, timers>>
       ELSE showAOI(a)
    /\ err' = "none"
    /\ lastOp' = "showAOI"
    /\ UNCHANGED <<lifeVars, envVars, storeVars, searchVars, flowVars, viewVars, tooltip>>

----------------------------------------------------------------------------
(* Specifications *)

(* the confirm gate of the AOI workflow: search, draw, apply, confirm *)
NextGate ==
    \/ MountEffects
    \/ AttachMain
    \/ \E q \in {"", "Cologne"} : HandleInputChange(q)
    \/ \E i \in 1..MaxInflight, o \in Outcomes : FetchSettled(i, o)
    \/ \E s \in {sCologne, sDom, sBonn} : ApplySuggestion(s)
    \/ OnCreated("rect-1")
    \/ \E gone \in SUBSET (1..MaxShapes) : OnDeleted(gone)
    \/ ApplyOutlineAsBase
    \/ ConfirmAOI
    \/ \E i \in 1..MaxTimers : FireTimer(i)

(* staging and drawing: the handlers that set the confirm flag and the     *)
(* drawing surface, without the save                                       *)
NextDraw ==
    \/ MountEffects
    \/ AttachMain
    \/ \E q \in {"", "Cologne"} : HandleInputChange(q)
    \/ \E i \in 1..MaxInflight, o \in Outcomes : FetchSettled(i, o)
    \/ \E s \in {sCologne, sDom, sBonn} : ApplySuggestion(s)
    \/ OnCreated("rect-1")
    \/ \E gone \in SUBSET (1..MaxShapes) : OnDeleted(gone)
    \/ ApplyOutlineAsBase
    \/ \E i \in 1..MaxTimers : FireTimer(i)

(* search, draw and confirm, on a surface that is never cleared *)
NextConfirm ==
    \/ MountEffects
    \/ AttachMain
    \/ \E q \in {"", "Cologne"} : HandleInputChange(q)
    \/ \E i \in 1..MaxInflight, o \in Outcomes : FetchSettled(i, o)
    \/ \E s \in {sCologne, sDom, sBonn} : ApplySuggestion(s)
    \/ OnCreated("rect-1")
    \/ ConfirmAOI
    \/ \E i \in 1..MaxTimers : FireTimer(i)

(* saving and deleting AOIs under the faults of localStorage *)
NextDelete ==
    \/ MountEffects
    \/ AttachMain
    \/ Reload
    \/ OnCreated("rect-1")
    \/ ConfirmAOI
    \/ \E id \in Range(UUIDs) : DeleteAOI(id)
    \/ \E i \in 1..MaxTimers : FireTimer(i)
    \/ \E m \in StorageModes : StorageFault(m)
    \/ \E item \in ForeignAOIItems : ForeignWrite(StoreKey, item)

(* the AOI store under the faults of localStorage *)
NextStore ==
    \/ MountEffects
    \/ AttachMain
    \/ Reload
    \/ \E r \in Drawings : OnCreated(r)
    \/ \E gone \in SUBSET (1..MaxShapes) : OnDeleted(gone)
    \/ ConfirmAOI
    \/ \E id \in Range(UUIDs) : DeleteAOI(id)
    \/ \E i \in 1..MaxTimers : FireTimer(i)
    \/ \E m \in StorageModes : StorageFault(m)
    \/ \E item \in ForeignAOIItems : ForeignWrite(StoreKey, item)

(* the suggestion session: queries, responses in any order, selection *)
NextSearch ==
    \/ MountEffects
    \/ AttachMain
    \/ \E q \in Queries : HandleInputChange(q)
    \/ \E i \in 1..MaxInflight, o \in Outcomes : FetchSettled(i, o)
    \/ \E s \in {sCologne, sDom, sBonn} : ApplySuggestion(s)
    \/ \E i \in 1..MaxTimers : FireTimer(i)

(* the view/theme state machine *)
NextView ==
    \/ MountEffects
    \/ AttachMain
    \/ Reload
    \/ \E mode \in {"base", "map"} : ViewButton(mode)
    \/ \E next \in {"light", "dark"} : ApplyTheme(next)
    \/ \E k \in ShortcutKeys : HandleKey(k)
    \/ \E i \in 1..MaxTimers : FireTimer(i)
    \/ \E m \in StorageModes : StorageFault(m)

(* the two maps *)
NextMap ==
    \/ MountEffects
    \/ AttachMain
    \/ AttachMini
    \/ Reload
    \/ ZoomIn
    \/ ZoomOut
    \/ \E place \in Places : Drag(place)
    \/ ResetMap
    \/ \E i \in 1..MaxTimers : FireTimer(i)
    \/ Unmount

(* theme and view transitions around the teardown of the viewer *)
NextTeardown ==
    \/ MountEffects
    \/ AttachMain
    \/ Reload
    \/ \E next \in {"light", "dark"} : ApplyTheme(next)
    \/ \E k \in ShortcutKeys : HandleKey(k)
    \/ \E i \in 1..MaxTimers : FireTimer(i)
    \/ Unmount

(* the saved AOIs on the map: zoom and show, with a record of foreign      *)
(* origin among them                                                       *)
NextShow ==
    \/ MountEffects
    \/ AttachMain
    \/ Reload
    \/ \E item \in LegacyItems : ForeignWrite(StoreKey, item)
    \/ OnCreated("rect-1")
    \/ ConfirmAOI
    \/ \E a \in Range(aois.items) : ZoomToSaved(a)
    \/ \E a \in Range(aois.items) : ShowAOI(a)
    \/ \E i \in 1..MaxTimers : FireTimer(i)

(* no timer is pending and no geocoding request is under way *)
Settled == timers = <<>> /\ inflight = <<>>

(* every operation of the viewer, for a user who acts once the page has   *)
(* settled, searches once per page load and keeps one shape on the         *)
(* drawing surface                                                         *)
NextFrame ==
    \/ MountEffects
    \/ AttachMain
    \/ Settled /\ searchQuery = "" /\ HandleInputChange("Cologne")
    \/ \E i \in 1..MaxInflight : FetchSettled(i, "list")
    \/ Settled /\ ApplySuggestion(sCologne)
    \/ Settled /\ shapes = <<>> /\ OnCreated("rect-1")
    \/ \E gone \in SUBSET (1..MaxShapes) : Settled /\ OnDeleted(gone)
    \/ Settled /\ ApplyOutlineAsBase
    \/ Settled /\ ConfirmAOI
    \/ \E id \in Range(UUIDs) : Settled /\ DeleteAOI(id)
    \/ \E mode \in {"base", "map"} : Settled /\ ViewButton(mode)
    \/ \E next \in {"light", "dark"} : Settled /\ ApplyTheme(next)
    \/ \E a \in Range(aois.items) : Settled /\ ZoomToSaved(a)
    \/ \E a \in Range(aois.items) : Settled /\ ShowAOI(a)
    \/ \E i \in 1..MaxTimers : FireTimer(i)

(* two tabs on one store: the viewer saves and deletes, one shape at a    *)
(* time, while the other tab has a store operation under way               *)
NextTabs ==
    \/ MountEffects
    \/ AttachMain
    \/ shapes = <<>> /\ OnCreated("rect-1")
    \/ ConfirmAOI
    \/ \E id \in Range(UUIDs) : DeleteAOI(id)
    \/ \E a \in {Writer2AOI(n) : n \in 1..Len(Writer2UUIDs)} : Writer2Load("add", a)
    \/ \E a \in Range(loadAOIs.items) : Writer2Load("delete", a)
    \/ Writer2Save

Next == NextShow \/ NextTabs \/ NextFrame \/ NextGate \/ NextStore \/ NextSearch \/ NextView \/ NextMap \/ NextTeardown

(* the viewer with "../../utils/storage" resolved to src/utils/storage.ts;  *)
(* the two store modules differ only when localStorage refuses a write     *)
InitAsImported == Init /\ storeImpl = "unguarded" /\ syncImpl = "hook"

(* the viewer of MapViewerEnhanced.tsx with either store module *)
InitHook == Init /\ syncImpl = "hook"

Spec      == Init /\ [][Next]_vars
SpecGate  == InitAsImported /\ [][NextGate]_vars
SpecDraw  == InitAsImported /\ [][NextDraw]_vars
SpecConfirm == InitAsImported /\ [][NextConfirm]_vars
SpecDelete == InitHook /\ [][NextDelete]_vars
SpecStore == InitHook /\ [][NextStore]_vars
SpecSearch == InitAsImported /\ [][NextSearch]_vars
SpecView  == InitAsImported /\ [][NextView]_vars
SpecMap   == Init /\ [][NextMap]_vars
SpecShow  == InitAsImported /\ [][NextShow]_vars
SpecTabs  == InitAsImported /\ [][NextTabs]_vars
SpecFrame == InitAsImported /\ [][NextFrame]_vars
SpecTeardown == InitAsImported /\ [][NextTeardown]_vars

----------------------------------------------------------------------------
(* Claims *)

Persisted == loadAOIs.items

DistinctIds(items) ==
    \A i, j \in 1..Len(items) : i # j => items[i].id # items[j].id

(* the records of items whose id is not id, in their order *)
Without(items, id) == SelectSeq(items, LAMBDA a : a.id # id)

StorageErrors == {"QuotaExceededError", "SecurityError"}

MoveOps == {"zoomIn", "zoomOut", "drag", "resetMap"}

(* C1: immediately after every onCreated and every onDeleted event the     *)
(* confirm action is enabled exactly when the drawing surface holds at     *)
(* least one shape.                                                        *)
C1_ConfirmGateAfterDrawEvents ==
    lastOp \in {"onCreated", "onDeleted"} => (~confirmDisabled <=> Len(shapes) > 0)

(* a delete event that left one of two shapes, confirm still enabled *)
C1_Witness ==
    lastOp = "onDeleted" /\ Len(shapes) = 1 /\ ~confirmDisabled

(* C2: in every reachable state the confirm action is enabled if and only  *)
(* if the drawing surface holds at least one shape.                        *)
C2_ConfirmEnabledIffShape ==
    ~confirmDisabled <=> Len(shapes) > 0

(* C3: after confirmAOI has passed a geometry to addAOI, loadAOIs returns  *)
(* a collection with a record of that geometry, and the ids of the stored  *)
(* collection are pairwise distinct.  Stated for a localStorage that       *)
(* accepts every write, where the store has no excuse for losing a record. *)
C3_SaveThenListRoundTrip ==
    /\ DistinctIds(Persisted)
    /\ (lastOp = "confirmAOI" /\ storageMode = "ok" /\ Len(shapes) > 0)
         => \E a \in Range(Persisted) : a.geometry = toGeoJSON(shapes[1])

C5_LoadAlwaysList ==
    loadAOIs.kind = "array"

(* C6: while localStorage is unavailable or over quota, confirmAOI and     *)
(* deleteAOI raise no storage error and leave localStorage as it was.      *)
C6_SaveFailsSilently ==
    [][(storageMode # "ok" /\ (ConfirmAOI \/ \E id \in Range(UUIDs) : DeleteAOI(id)))
         => (err' \notin StorageErrors /\ storage' = storage)]_vars

(* C7: requesting the current view mode, by a button or by the B/M key,    *)
(* changes neither viewMode nor the imagery layer nor the fading flag nor  *)
(* localStorage.                                                           *)
C7_SameViewModeIsNoOp ==
    [][(\/ ViewButton(viewMode)
        \/ (viewMode = "base" /\ HandleKey("b"))
        \/ (viewMode = "map" /\ HandleKey("m")))
         => UNCHANGED <<viewMode, wmsRef, fading, storage>>]_vars

(* C8: applyTheme(next) with next the current theme changes neither the    *)
(* theme nor the fading flag, schedules no timer and writes nothing.       *)
C8_SameThemeIsNoOp ==
    [][ApplyTheme(theme) => UNCHANGED <<theme, fading, timers, storage>>]_vars

(* applyTheme("dark") was called in the dark theme and nothing is fading *)
C8_Witness ==
    lastOp = "applyTheme" /\ theme = "dark" /\ ~fading /\ timers = <<>>

(* C9, as claimed: the theme a reload would read from localStorage is the  *)
(* theme in force.                                                         *)
C9_ReloadReadsChosenTheme ==
    initialTheme = theme

(* C9, amended: when the swap callback of a theme change runs while        *)
(* localStorage accepts the write, the theme becomes the chosen one and    *)
(* the theme initialiser then reads that theme back.                       *)
C9_ReloadReadsStoredTheme ==
    [][\A i \in 1..MaxTimers :
         (FireTimer(i) /\ timers[i].kind = "swapTheme"
            /\ phase = "mounted" /\ storageMode = "ok")
           => (theme' = timers[i].arg /\ initialTheme' = theme')]_vars

(* a reload has started in the dark theme *)
C9_Witness ==
    lastOp = "render" /\ theme = "dark"

(* C10: after a move or zoom of the primary map with both maps attached,   *)
(* the minimap has the primary's centre and max(0, primary zoom - 4).      *)
C10_MiniFollowsMain ==
    (mapRef /\ miniRef /\ lastOp \in MoveOps) => miniView = sync(mainView)

ConfirmWarnings == {"No area to confirm", "Draw or apply an outline first."}

(* C11: confirmAOI called while the drawing surface holds no shape, or is  *)
(* not attached, shows a warning and leaves the persisted collection and   *)
(* the displayed AOI list as they were.                                    *)
C11_ConfirmWithoutShapeWarns ==
    [][(ConfirmAOI /\ (~featureGroupRef \/ Len(shapes) = 0))
         => (toast' \in ConfirmWarnings /\ err' = "none" /\ UNCHANGED <<storage, aois>>)]_vars

(* confirm was called on an attached, empty drawing surface *)
C11_Witness ==
    /\ lastOp = "confirmAOI" /\ featureGroupRef /\ Len(shapes) = 0
    /\ toast = "Draw or apply an outline first."

(* C12: confirmAOI called with a shape on the drawing surface, while       *)
(* localStorage accepts writes, appends exactly one record built from the  *)
(* first shape to the persisted collection, leaves the earlier records as  *)
(* they were, and the displayed list is the persisted one.                 *)
C12_ConfirmAppendsOne ==
    [][(ConfirmAOI /\ featureGroupRef /\ Len(shapes) > 0 /\ storageMode = "ok")
         => (/\ Persisted' = Append(Persisted, NewAOI(shapes[1]))
             /\ aois' = loadAOIs')]_vars

(* C13: applyOutlineAsBase with an outline staged and the drawing surface  *)
(* attached leaves exactly one shape on the surface, the outline; every    *)
(* shape drawn before is gone.                                             *)
C13_ApplyOutlineLeavesOnlyOutline ==
    [][(ApplyOutlineAsBase /\ outlinePolygon # "" /\ featureGroupRef)
         => shapes' = <<OutlineLayer(outlinePolygon)>>]_vars

(* the outline was applied after a shape had been drawn (the tooltip of    *)
(* onCreated is the last one shown) and is the only shape                  *)
C13_Witness ==
    /\ lastOp = "applyOutlineAsBase" /\ toast = "Outline applied - edit if needed."
    /\ tooltip.text = "Shape drawn - click Confirm to save"
    /\ shapes = <<OutlineLayer(outlinePolygon)>>

(* C14: applyOutlineAsBase without a staged outline shows the warning      *)
(* "No outline available." and leaves the drawing surface, the confirm     *)
(* flag, the staged outline and both viewports as they were.               *)
C14_ApplyWithoutOutlineWarns ==
    [][(ApplyOutlineAsBase /\ outlinePolygon = "")
         => (/\ toast' = "No outline available."
             /\ UNCHANGED <<shapes, confirmDisabled, outlinePolygon, mainView, miniView>>)]_vars

(* the warning was shown with a drawn shape on the surface *)
C14_Witness ==
    /\ lastOp = "applyOutlineAsBase" /\ toast = "No outline available."
    /\ Len(shapes) > 0 /\ ~confirmDisabled

(* C15: applySuggestion(s) empties the suggestion list and sets the search *)
(* text to s.display_name; when s carries an outline geometry it becomes   *)
(* the staged outline and confirm is enabled, when it carries none the     *)
(* staged outline is cleared and confirm is disabled.                      *)
C15_SelectStagesOrClears ==
    [][\A s \in {sCologne, sDom, sBonn} :
         ApplySuggestion(s) =>
           /\ suggestions' = <<>>
           /\ searchQuery' = s.display_name
           /\ IF s.geojson # ""
              THEN outlinePolygon' = s.geojson /\ ~confirmDisabled'
              ELSE outlinePolygon' = "" /\ confirmDisabled']_vars

(* a suggestion without outline was selected after an outline had been     *)
(* staged and applied: nothing is staged any more and confirm is disabled  *)
C15_Witness ==
    /\ lastOp = "applySuggestion" /\ searchQuery = sDom.display_name
    /\ suggestions = <<>> /\ outlinePolygon = "" /\ confirmDisabled
    /\ Len(shapes) = 1 /\ shapes[1].kind = "outline"

(* C16: a query with empty text empties the suggestion list at once and    *)
(* issues no lookup; a lookup that settles with a list replaces the        *)
(* suggestion list with it, and one that fails or returns something that   *)
(* is not a list leaves the suggestion list empty, with no error and no    *)
(* notification.                                                           *)
C16_QueryAndFetchOutcome ==
    [][/\ HandleInputChange("") => (suggestions' = <<>> /\ inflight' = inflight)
       /\ \A i \in 1..MaxInflight, o \in Outcomes :
            FetchSettled(i, o) =>
              /\ suggestions' = IF o = "list" THEN Results(inflight[i]) ELSE <<>>
              /\ err' = "none" /\ toast' = toast]_vars

(* a lookup has failed: no request is under way and nothing is suggested   *)
(* for a query that has results                                            *)
C16_Witness ==
    /\ lastOp = "fetchSettled" /\ searchQuery = "Cologne"
    /\ inflight = <<>> /\ suggestions = <<>>

(* C20: a new query cancels no request that is under way, and a response   *)
(* is applied when it arrives, whatever the latest query is: the results   *)
(* of an earlier query that arrive last are what the suggestion list holds. *)
C20_ResponsesInArrivalOrder ==
    [][/\ \A q \in Queries \ {""} :
            HandleInputChange(q) => inflight' = Append(inflight, q)
       /\ \A i \in 1..MaxInflight :
            (FetchSettled(i, "list") /\ inflight[i] # searchQuery)
              => (suggestions' = Results(inflight[i]) /\ searchQuery' = searchQuery)]_vars

(* "Cologne" was asked before "Bonn" and answered after it: the list shows *)
(* the results for "Cologne" under the query "Bonn"                        *)
C20_Witness ==
    /\ lastOp = "fetchSettled" /\ searchQuery = "Bonn" /\ inflight = <<>>
    /\ suggestions = Results("Cologne")

(* a request for the base view: the "Use NRW" / Base buttons, or the       *)
(* callback the B key scheduled                                            *)
BaseRequested ==
    \/ ViewButton("base")
    \/ \E i \in 1..MaxTimers :
         FireTimer(i) /\ phase = "mounted"
           /\ timers[i].kind = "swapView" /\ timers[i].arg = "base"

(* a request that takes the view away from base, or a reload of the page *)
MapRequested ==
    \/ Reload
    \/ ViewButton("map")
    \/ \E i \in 1..MaxTimers :
         FireTimer(i) /\ timers[i].kind = "swapView" /\ timers[i].arg = "map"

(* C17: a request for the base view sets viewMode to "base" also when the  *)
(* imagery overlay cannot be installed, in which case the warning "Failed  *)
(* to load NRW WMS" is shown; viewMode leaves "base" only on a request for *)
(* the map view or a reload, never by itself.                              *)
C17_OverlayFailureKeepsBase ==
    [][/\ (BaseRequested /\ viewMode # "base")
            => (/\ viewMode' = "base"
                /\ (mapRef /\ ~wmsRef') => toast' = "Failed to load NRW WMS")
       /\ (viewMode = "base" /\ viewMode' # "base") => MapRequested]_vars

(* the base view is on, the overlay is not, the warning is shown *)
C17_Witness ==
    /\ viewMode = "base" /\ mapRef /\ ~wmsRef
    /\ toast = "Failed to load NRW WMS"

(* C18: once confirmAOI has saved an AOI no outline polygon is staged.     *)
C18_OutlineClearedOnConfirm ==
    (lastOp = "confirmAOI" /\ toast = "Area of Interest saved") => outlinePolygon = ""

(* C19: once the viewer is unmounted no minimap sync listener that it      *)
(* registered is left on the primary map.                                  *)
C19_NoSyncListenerAfterUnmount ==
    phase = "unmounted" => ~syncOn

(* C21: the suggestion list holds entries only during a search session,    *)
(* that is while the search text is a query the user typed: after a        *)
(* selection (the text is the display name) or an empty query (the text is *)
(* empty) the list is empty until a new query is typed.                    *)
C21_SuggestionsOnlyInSession ==
    suggestions # <<>> => searchQuery \in Queries \ {""}

(* C22: viewMode and theme change only while the fading flag is set.       *)
C22_ChangesInsideFade ==
    [][((viewMode' # viewMode \/ theme' # theme) /\ phase' # "rendered") => fading]_vars

(* C25: when confirmAOI extracts a geometry the drawing surface holds      *)
(* exactly one shape.                                                      *)
C25_OneShapeAtConfirm ==
    [][(ConfirmAOI /\ featureGroupRef /\ Len(shapes) > 0) => Len(shapes) = 1]_vars

(* C29: after a confirmAOI or deleteAOI that completed, the displayed AOI  *)
(* list is the persisted collection.                                       *)
C29_DisplayedIsPersisted ==
    (lastOp \in {"confirmAOI", "deleteAOI"} /\ err = "none") => aois = loadAOIs

(* C26: a timer callback that runs after the viewer was unmounted changes  *)
(* neither localStorage nor the view, map or notification state.           *)
C26_TimerAfterTeardownIsNoOp ==
    [][(phase = "unmounted" /\ \E i \in 1..MaxTimers : FireTimer(i))
         => UNCHANGED <<storage, viewVars, mapVars, uiVars>>]_vars

(* C23: once no timer is pending, viewMode is the mode the most recent     *)
(* view-mode request (button or shortcut) asked for.                       *)
C23_LastRequestWins ==
    (phase = "mounted" /\ timers = <<>>) => viewMode = requested

(* C30: the map carries at most one WMS overlay, it carries one only while *)
(* viewMode is "base", and a view-mode change processed with the map       *)
(* attached leaves one overlay when the new mode is "base" (unless the     *)
(* installation failed with its notification) and none when it is "map".   *)
C30_OneOverlayOnlyInBase ==
    [][/\ overlays' \in {0, 1}
       /\ overlays' > 0 => viewMode' = "base"
       /\ (viewMode' # viewMode /\ mapRef /\ phase' # "rendered")
            => IF viewMode' = "base"
               THEN overlays' = 1 \/ toast' = "Failed to load NRW WMS"
               ELSE overlays' = 0]_vars

(* the overlay is installed: the base view was reached with the map        *)
(* attached                                                                *)
C30_Witness ==
    viewMode = "base" /\ mapRef /\ overlays = 1 /\ wmsRef

(* C28: every highlight layer showAOI has put on the map has its removal   *)
(* pending, so that it is removed in the end; in particular after a Show   *)
(* on an AOI whose geometry has no bounds.                                 *)
C28_HighlightsAreRemoved ==
    highlights = Cardinality({i \in 1..Len(timers) : timers[i].kind = "removeHighlight"})

(* C24: the item stored under the AOI key changes only in confirmAOI and   *)
(* deleteAOI; confirmAOI removes no record and deleteAOI creates none; and *)
(* a record that stays stored keeps its id, geometry and createdAt.        *)
C24_OnlyConfirmAndDeleteChangeStore ==
    [][storage'[StoreKey] # storage[StoreKey]
         => LET before == Range(loadAOIsFrom(storage, StoreKey).items)
                after == Range(loadAOIsFrom(storage', StoreKey).items) IN
            /\ lastOp' \in {"confirmAOI", "deleteAOI"}
            /\ lastOp' = "confirmAOI" => before \subseteq after
            /\ lastOp' = "deleteAOI" => after \subseteq before
            /\ \A a \in before, b \in after : a.id = b.id => a = b]_vars

(* a record is stored and the theme has been written to localStorage next  *)
(* to it                                                                   *)
C24_Witness ==
    Persisted # <<>> /\ storage[THEME_KEY] = Item(<<"dark">>) /\ lastOp = "timer"

(* C27: a save of the second writer stores the list it loaded with its own *)
(* change applied, whatever the store holds by then: the records written   *)
(* between its load and its save are lost, the records deleted in between  *)
(* come back.                                                              *)
C27_SaveWritesWhatWasLoaded ==
    [][(lastOp' = "writer2Save" /\ writer2.pc = "loaded")
         => loadAOIsFrom(storage', StoreKey).items
              = IF writer2.op = "add"
                THEN Append(writer2.list.items, writer2.arg)
                ELSE Without(writer2.list.items, writer2.arg.id)]_vars

(* the second writer's save has dropped a record that the viewer had       *)
(* stored after the second writer's load                                   *)
C27_Witness ==
    /\ lastOp = "writer2Save"
    /\ \E a \in writer2.lost : a \in Range(aois.items) /\ a \notin Range(writer2.list.items)

====
